---------------------------- MODULE Spec2Model ----------------------------
(***************************************************************************)
(* Model of the AI subsystem of EnergyConnect: the ModelTrainer            *)
(* orchestrator (backend/ai/modelTrainer.js), the EnergyPredictionModel    *)
(* and DatasetGenerator classes (backend/ai/predictionModel.js), the       *)
(* NeuralNetworkSimulation (backend/ai/neuralNetwork.js) and the AI routes *)
(* that drive them (second half of backend/models/User.js).                *)
(*                                                                         *)
(* Node runs one continuation at a time; a continuation runs from one      *)
(* await to the next.  Each action below is one such continuation of one   *)
(* call, so that calls interleave exactly at the awaits of the source.     *)
(*                                                                         *)
(* NeuralNetworkSimulation (neuralNetwork.js:2-38) defines constructor,    *)
(* trainModel, predict and evaluateModel only.  The statement              *)
(* this.neuralNetwork.createModel(6) at modelTrainer.js:30 therefore       *)
(* raises a TypeError in every run that gets there, and lines 31-51 of     *)
(* trainAllModels (the baseline delay, the 'completed' assignment, the     *)
(* metadata save and the return of the comparison) are never executed.     *)
(***************************************************************************)
EXTENDS Integers, FiniteSets, Sequences, TLC

\* ------------------------------------------------------------------ bounds
MaxCalls == 2       \* number of requests (train-models / generate-dataset) issued

MaxRecords == 2     \* largest numRecords of the generation looked at record by record
MaxPlans == 2       \* largest number of documents the energy_plans query returns
MaxHistory == 2     \* longest usageHistory handed to recommendPlan
MaxOrders == 2      \* number of orders placed on the product
MaxRequests == 2    \* number of approve-order requests issued
MaxStock == 2       \* stock of the product before the first order

Calls == 1..MaxCalls

\* abstract R-squared scores an evaluation can produce (negative allowed)
RSquaredValues == {-1, 0}

\* ------------------------------------------------------------------ state
VARIABLES
    trainingStatus,      \* ModelTrainer.trainingStatus
    linearModel,         \* ModelTrainer.linearModel : the EnergyPredictionModel instance
    neuralNetwork,       \* ModelTrainer.neuralNetwork : the NeuralNetworkSimulation instance
    ai_energy_dataset,   \* db collection 'ai_energy_dataset' : set of records
    ai_model_metadata,   \* db collection 'ai_model_metadata' : set of metadata documents
    call,                \* the requests: kind, position, inputs, outcome
    lastPredict,         \* outcome of the latest ModelTrainer.predict call
    statusReply,         \* status field of the latest getTrainingStatus reply
    gen,                 \* one generateComprehensiveDataset call, record by record
    fitInput,            \* what the latest trainEnsembleModel call met
    prediction,          \* answer of the latest EnergyPredictionModel.predict call
    recommendation,      \* answer of the latest ModelTrainer.recommendPlan call
    analysis,            \* answer of the latest ModelTrainer.analyzePatterns call
    score,               \* the latest calculateSuitability call and its result
    clock,               \* time fields of the latest record literal
    orders,              \* db collection of orders
    stock,               \* stock field of the product the orders are about
    requests             \* the order requests: kind, order, position

\* the variables of the operations that are looked at on their own
others == <<gen, fitInput, prediction, recommendation, analysis,
            score, clock, orders, stock, requests>>

\* the variables of the suitability score, the time fields and the order routes
apart == <<score, clock, orders, stock, requests>>

\* the variables of the ModelTrainer and its collections
trainer == <<trainingStatus, linearModel, neuralNetwork, ai_energy_dataset,
             ai_model_metadata, call, lastPredict, statusReply>>

vars == <<trainingStatus, linearModel, neuralNetwork, ai_energy_dataset,
          ai_model_metadata, call, lastPredict, statusReply,
          gen, fitInput, prediction, recommendation, analysis,
          score, clock, orders, stock, requests>>

\* ------------------------------------------------------------ plain values
NoModel == [run |-> 0, kind |-> "null"]
NoMetrics == [run |-> 0, name |-> "undefined", rSquared |-> 0]
Pending == [kind |-> "pending", value |-> "none"]
Threw(e) == [kind |-> "threw", value |-> e]
Returned(v) == [kind |-> "returned", value |-> v]

\* A generated record carries a fresh ObjectId, so the datasets of different
\* calls share no record and a collection is known by which datasets it holds
\* records of, and whether all of them or only some.
\* The requested datasetSize (at least 1) decides only how many records
\* there are, not which steps a call takes.
\* Records(c): all the records of the dataset generated by call c
Records(c) == {<<c, "all">>}

\* the records an insertMany of call c's dataset stored before it was
\* rejected: none of them, or some but not all
StoredBeforeError(c) == {{}, {<<c, "part">>}}

ActivePcs == {"getCustomerIds", "getEnergyPlans", "deleteMany", "insertMany",
              "awaitFit", "getDatasetStats"}

\* ------------------------------------------------- EnergyPredictionModel
\* constructor: no model, not trained, empty metrics
EnergyPredictionModel ==
    [linearModel |-> NoModel, isTrained |-> FALSE,
     accuracyMetrics |-> NoMetrics, featureImportance |-> 0]

NeuralNetworkSimulation == [isTrained |-> FALSE]

\* a selection that lets the later candidate win a tie
bestModel_TieToLast(rLin, rPoly) ==
    IF rPoly >= rLin THEN [name |-> "polynomial", rSquared |-> rPoly]
                     ELSE [name |-> "linear", rSquared |-> rLin]

\* evaluations.reduce((best, current) => current.rSquared > best.rSquared ? current : best)
\* over [linear, polynomial]: the polynomial entry wins only when strictly better
bestModel(rLin, rPoly) ==
    IF rPoly > rLin THEN [name |-> "polynomial", rSquared |-> rPoly]
                    ELSE [name |-> "linear", rSquared |-> rLin]

\* a fallback whose linear fit raises
FallbackThrows_Always(linThrows) == TRUE

\* The fallback of trainPolynomialModel runs regression.linear on the very
\* dataset the first trainLinearModel has just fitted: it raises exactly when
\* that first call raised.
FallbackThrows(linThrows) == linThrows

\* a fit that publishes the model and the trained flag but not yet the metrics
trainEnsembleModel_Partial(m, c, linThrows, polyThrows, fbThrows, rLin, rPoly) ==
    IF linThrows \/ (polyThrows /\ fbThrows)
    THEN [model |-> m, raised |-> TRUE]
    ELSE [model |-> [m EXCEPT !.linearModel = [run |-> c, kind |-> "linear"],
                              !.isTrained = TRUE],
          raised |-> FALSE]

\* trainEnsembleModel(dataset) of run c.  No await inside: it runs to its end
\* (or to the throw) within the continuation that called it.
\*   linThrows : regression.linear raises in the first trainLinearModel
\*   polyThrows: regression.polynomial raises (caught, falls back to linear)
\*   fbThrows  : regression.linear raises in that fallback
\* Result: the instance afterwards and whether the call raised.
trainEnsembleModel(m, c, linThrows, polyThrows, fbThrows, rLin, rPoly) ==
    IF linThrows
    THEN [model |-> m, raised |-> TRUE]
    ELSE IF polyThrows /\ fbThrows
    THEN [model |-> [m EXCEPT !.featureImportance = c], raised |-> TRUE]
    ELSE LET best == bestModel(rLin, rPoly)
             polyObj == IF polyThrows THEN "linear" ELSE "polynomial"
             kept == IF best.name = "linear" THEN "linear" ELSE polyObj
         IN [model |-> [linearModel |-> [run |-> c, kind |-> kept],
                        isTrained |-> TRUE,
                        accuracyMetrics |-> [run |-> c, name |-> best.name,
                                             rSquared |-> best.rSquared],
                        featureImportance |-> c],
             raised |-> FALSE]

\* what a predict call answers: raised or a value, and for a value the fit
\* whose model object was used (model) and the fit whose kind label
\* accuracyMetrics.name was handed to predictWithModel (label)
NoPredict == [outcome |-> "none", modelType |-> "none", model |-> 0, label |-> 0]

\* a predict that serves the linear instance without looking at isTrained
predict_Unchecked(lm, nn, modelType) ==
    [outcome |-> "value", modelType |-> "linear",
     model |-> lm.linearModel.run, label |-> lm.accuracyMetrics.run]

\* ModelTrainer.predict(input, modelType): the neural model when asked for and
\* trained, else the linear instance when trained, else the error
predict(lm, nn, modelType) ==
    IF modelType = "neural" /\ nn.isTrained
    THEN [NoPredict EXCEPT !.outcome = "value", !.modelType = "neural"]
    ELSE IF lm.isTrained
    THEN [outcome |-> "value", modelType |-> "linear",
          model |-> lm.linearModel.run, label |-> lm.accuracyMetrics.run]
    ELSE [NoPredict EXCEPT !.outcome = "raised", !.modelType = modelType]

\* ------------------------------------------------------------ collections
\* a deleteMany that removes nothing
deleteMany_Keeps(coll) == coll

\* collection.deleteMany({})
deleteMany(coll) == {}

\* collection.insertMany(docs)
insertMany(coll, docs) == coll \cup docs

\* getTrainingStatus: findOne on ai_model_metadata, else the 'never_trained' default
getTrainingStatus(metadata) ==
    IF metadata = {} THEN "never_trained"
    ELSE (CHOOSE d \in metadata : TRUE).status

\* ------------------------------------------------------------------ Init
\* nothing generated, fitted, predicted or recommended yet
NoGen == [pc |-> "none"]
NoFitInput == [called |-> FALSE, linThrows |-> FALSE, polyThrows |-> FALSE,
               rLin |-> 0, rPoly |-> 0, raised |-> FALSE]
NoPrediction == [outcome |-> "none", given |-> 0, kind |-> "null"]
NoRecommendation ==
    [customerData |-> [hasSolar |-> FALSE, income |-> "Medium"],
     usageHistory |-> << >>,
     result |-> [outcome |-> "none", currentUsage |-> 0, nan |-> FALSE,
                 recommendedPlan |-> [plan |-> "none"], allOptions |-> << >>,
                 reasoning |-> << >>]]

NoScore == [called |-> FALSE, plan |-> 1, sum |-> 0, n |-> 1,
            customerData |-> [hasSolar |-> FALSE, income |-> "Medium"],
            suitability |-> 0]
NoClock == [called |-> FALSE, hourOfDay |-> 0, month |-> 0, peakHours |-> FALSE,
            bucket |-> "none", season |-> "none"]

Orders == 1..MaxOrders
Requests == 1..MaxRequests

\* an order not yet placed; decrements counts the $inc of stock made for it
NoOrder == [status |-> "none", action |-> "none", quantity |-> 0, decrements |-> 0]
NoRequest == [kind |-> "none", order |-> 0, pc |-> "none"]

NoCall == [kind |-> "none", pc |-> "none", poolEmpty |-> FALSE,
           fit |-> "none", saveAttempts |-> 0, dirty |-> FALSE, result |-> Pending]

Init ==
    /\ trainingStatus = "idle"
    /\ linearModel = EnergyPredictionModel
    /\ neuralNetwork = NeuralNetworkSimulation
    /\ ai_energy_dataset = {}
    /\ ai_model_metadata = {}
    /\ call = [c \in Calls |-> NoCall]
    /\ lastPredict = NoPredict
    /\ statusReply = "none"
    /\ gen = NoGen
    /\ fitInput = NoFitInput
    /\ prediction = NoPrediction
    /\ recommendation = NoRecommendation
    /\ analysis = "none"
    /\ score = NoScore
    /\ clock = NoClock
    /\ orders = [o \in Orders |-> NoOrder]
    /\ stock = MaxStock
    /\ requests = [r \in Requests |-> NoRequest]

\* ------------------------------------------------------------ catch block
\* a catch block that leaves the status alone
Catch_KeepsStatus(e) == [status |-> "training", result |-> Threw(e)]

\* a catch block that logs the error and returns
Catch_Swallows(e) == [status |-> "failed", result |-> Returned("undefined")]

\* trainAllModels catch (modelTrainer.js:53-57): status failed, rethrow the error
Catch(e) == [status |-> "failed", result |-> Threw(e)]

\* call c ends by raising e: its locals are gone.  A train run goes through
\* the catch block of trainAllModels; the generate-dataset route only reports
\* the error (500).
Ended(cs, c, e) ==
    [cs EXCEPT ![c].pc = "done", ![c].poolEmpty = FALSE, ![c].dirty = FALSE,
               ![c].result = IF cs[c].kind = "train" THEN Catch(e).result
                             ELSE Threw(e)]

StatusAfter(c, e) ==
    IF call[c].kind = "train" THEN Catch(e).status ELSE trainingStatus

Fail(c, e) ==
    /\ call' = Ended(call, c, e)
    /\ trainingStatus' = StatusAfter(c, e)

\* a saveDataset that starts over once when the store rejects
saveDatasetCatch_Retry(cs, c, e) ==
    IF cs[c].saveAttempts < 2
    THEN [cs EXCEPT ![c].pc = "deleteMany", ![c].saveAttempts = @ + 1]
    ELSE Ended(cs, c, e)

\* saveDataset catch (predictionModel.js:463-466): log and rethrow
saveDatasetCatch(cs, c, e) == Ended(cs, c, e)

\* ---------------------------------------------------------------- actions
\* POST /train-models: trainAllModels sets 'training' and calls
\* generateComprehensiveDataset, which suspends in getCustomerIds
InvokeTrain(c) ==
    /\ call[c].pc = "none"
    /\ c > 1 => call[c - 1].pc # "none"
    /\ call' = [call EXCEPT ![c] = [NoCall EXCEPT !.kind = "train",
                                                  !.pc = "getCustomerIds"]]
    /\ trainingStatus' = "training"
    /\ UNCHANGED <<linearModel, neuralNetwork, ai_energy_dataset,
                   ai_model_metadata, lastPredict, statusReply>>
    /\ UNCHANGED others

\* POST /generate-dataset: a fresh DatasetGenerator, same generation code
InvokeGenerate(c) ==
    /\ call[c].pc = "none"
    /\ c > 1 => call[c - 1].pc # "none"
    /\ call' = [call EXCEPT ![c] = [NoCall EXCEPT !.kind = "generate",
                                                  !.pc = "getCustomerIds"]]
    /\ UNCHANGED <<trainingStatus, linearModel, neuralNetwork, ai_energy_dataset,
                   ai_model_metadata, lastPredict, statusReply>>
    /\ UNCHANGED others

\* getCustomerIds resumes: the query raised (ten mock customers), or returned
\* no customer, or returned some; then getEnergyPlans suspends
GetCustomerIds(c) ==
    /\ call[c].pc = "getCustomerIds"
    /\ \E outcome \in {"throws", "empty", "found"} :
          call' = [call EXCEPT ![c].pc = "getEnergyPlans",
                               ![c].poolEmpty = (outcome = "empty")]
    /\ UNCHANGED <<trainingStatus, linearModel, neuralNetwork, ai_energy_dataset,
                   ai_model_metadata, lastPredict, statusReply>>
    /\ UNCHANGED others

\* getEnergyPlans resumes (always with a non-empty plan list), the record loop
\* runs; with an empty pool randomCustomer is undefined and randomCustomer._id
\* raises.  Otherwise the dataset is returned and saveDataset issues deleteMany.
GetEnergyPlans(c) ==
    /\ call[c].pc = "getEnergyPlans"
    /\ IF call[c].poolEmpty
       THEN Fail(c, "TypeError_randomCustomer")
       ELSE /\ call' = [call EXCEPT ![c].pc = "deleteMany",
                                    ![c].saveAttempts = call[c].saveAttempts + 1]
            /\ UNCHANGED trainingStatus
    /\ UNCHANGED <<linearModel, neuralNetwork, ai_energy_dataset,
                   ai_model_metadata, lastPredict, statusReply>>
    /\ UNCHANGED others

\* every other call that is between its deleteMany and its insertMany has now
\* seen another writer
MarkDirty(cs, c) ==
    [d \in Calls |-> IF d # c /\ cs[d].pc = "insertMany"
                     THEN [cs[d] EXCEPT !.dirty = TRUE] ELSE cs[d]]

\* saveDataset: deleteMany({}) resolves, insertMany is issued
DeleteManyOk(c) ==
    /\ call[c].pc = "deleteMany"
    /\ ai_energy_dataset' = deleteMany(ai_energy_dataset)
    /\ call' = MarkDirty([call EXCEPT ![c].pc = "insertMany", ![c].dirty = FALSE], c)
    /\ UNCHANGED <<trainingStatus, linearModel, neuralNetwork,
                   ai_model_metadata, lastPredict, statusReply>>
    /\ UNCHANGED others

\* saveDataset: deleteMany rejects; the catch of saveDataset rethrows
DeleteManyFails(c) ==
    /\ call[c].pc = "deleteMany"
    /\ call' = saveDatasetCatch(call, c, "DeleteManyError")
    /\ trainingStatus' = StatusAfter(c, "DeleteManyError")
    /\ UNCHANGED <<linearModel, neuralNetwork, ai_energy_dataset,
                   ai_model_metadata, lastPredict, statusReply>>
    /\ UNCHANGED others

\* saveDataset: insertMany rejects, having stored some of the records
InsertManyFails(c) ==
    /\ call[c].pc = "insertMany"
    /\ \E stored \in StoredBeforeError(c) :
          /\ ai_energy_dataset' = insertMany(ai_energy_dataset, stored)
          /\ call' = IF stored # {}
                      THEN MarkDirty(saveDatasetCatch(call, c, "InsertManyError"), c)
                      ELSE saveDatasetCatch(call, c, "InsertManyError")
    /\ trainingStatus' = StatusAfter(c, "InsertManyError")
    /\ UNCHANGED <<linearModel, neuralNetwork,
                   ai_model_metadata, lastPredict, statusReply>>
    /\ UNCHANGED others

\* train run: insertMany resolves, saveDataset returns, trainEnsembleModel
\* runs to its end, and trainAllModels suspends on its promise (line 26)
InsertManyOkTrain(c) ==
    /\ call[c].pc = "insertMany"
    /\ call[c].kind = "train"
    /\ ai_energy_dataset' = insertMany(ai_energy_dataset, Records(c))
    /\ \E linThrows, polyThrows \in BOOLEAN, rLin, rPoly \in RSquaredValues :
          LET t == trainEnsembleModel(linearModel, c, linThrows, polyThrows,
                                      FallbackThrows(linThrows), rLin, rPoly)
          IN /\ linearModel' = t.model
             /\ call' = MarkDirty([call EXCEPT ![c].pc = "awaitFit",
                                               ![c].dirty = FALSE,
                                               ![c].fit = IF t.raised THEN "threw"
                                                          ELSE "ok"], c)
    /\ UNCHANGED <<trainingStatus, neuralNetwork,
                   ai_model_metadata, lastPredict, statusReply>>
    /\ UNCHANGED others

\* generate-dataset route: insertMany resolves, getDatasetStats suspends
InsertManyOkGenerate(c) ==
    /\ call[c].pc = "insertMany"
    /\ call[c].kind = "generate"
    /\ ai_energy_dataset' = insertMany(ai_energy_dataset, Records(c))
    /\ call' = MarkDirty([call EXCEPT ![c].pc = "getDatasetStats",
                                         ![c].dirty = FALSE], c)
    /\ UNCHANGED <<trainingStatus, linearModel, neuralNetwork,
                   ai_model_metadata, lastPredict, statusReply>>
    /\ UNCHANGED others

\* train run resumes at line 26: the rejection of the fit is raised there;
\* otherwise line 30 calls createModel, which NeuralNetworkSimulation lacks
AwaitFit(c) ==
    /\ call[c].pc = "awaitFit"
    /\ IF call[c].fit = "threw"
       THEN Fail(c, "FitError")
       ELSE Fail(c, "TypeError_createModel")
    /\ UNCHANGED <<linearModel, neuralNetwork, ai_energy_dataset,
                   ai_model_metadata, lastPredict, statusReply>>
    /\ UNCHANGED others

\* generate-dataset route: getDatasetStats resolves (its own errors are
\* caught and give {}), the route answers with insertedCount
GetDatasetStats(c) ==
    /\ call[c].pc = "getDatasetStats"
    /\ call' = [call EXCEPT ![c].pc = "done",
                            ![c].result = Returned("insertedCount")]
    /\ UNCHANGED <<trainingStatus, linearModel, neuralNetwork, ai_energy_dataset,
                   ai_model_metadata, lastPredict, statusReply>>
    /\ UNCHANGED others

\* POST /predict: synchronous
Predict(modelType) ==
    /\ lastPredict' = predict(linearModel, neuralNetwork, modelType)
    /\ UNCHANGED <<trainingStatus, linearModel, neuralNetwork, ai_energy_dataset,
                   ai_model_metadata, call, statusReply>>
    /\ UNCHANGED others

\* GET /training-status
GetTrainingStatus ==
    /\ statusReply' = getTrainingStatus(ai_model_metadata)
    /\ UNCHANGED <<trainingStatus, linearModel, neuralNetwork, ai_energy_dataset,
                   ai_model_metadata, call, lastPredict>>
    /\ UNCHANGED others

Next ==
    \/ \E c \in Calls : InvokeTrain(c)
    \/ \E c \in Calls : InvokeGenerate(c)
    \/ \E c \in Calls : GetCustomerIds(c)
    \/ \E c \in Calls : GetEnergyPlans(c)
    \/ \E c \in Calls : DeleteManyOk(c)
    \/ \E c \in Calls : DeleteManyFails(c)
    \/ \E c \in Calls : InsertManyFails(c)
    \/ \E c \in Calls : InsertManyOkTrain(c)
    \/ \E c \in Calls : InsertManyOkGenerate(c)
    \/ \E c \in Calls : AwaitFit(c)
    \/ \E c \in Calls : GetDatasetStats(c)
    \/ \E modelType \in {"linear", "neural"} : Predict(modelType)
    \/ GetTrainingStatus

Spec == Init /\ [][Next]_vars

\* ======================================================= DatasetGenerator
\* generateComprehensiveDataset looked at record by record.  Amounts of
\* energy and money are in hundredths (12 is 0.12, 2500 is 25.00).

\* the integers nearest to n / d (both neighbours when n / d lies half-way:
\* toFixed works on the binary value of the product, which may fall on
\* either side)
Nearest(n, d) ==
    {q \in (n \div d)..((n \div d) + 1) :
        2 * (IF q * d >= n THEN q * d - n ELSE n - q * d) <= d}

\* an evening peak that ends one hour early
isPeakHour_ShortEvening(hour) == (hour >= 17 /\ hour <= 20) \/ (hour >= 7 /\ hour <= 9)

\* isPeakHour(hour)
isPeakHour(hour) == (hour >= 17 /\ hour <= 21) \/ (hour >= 7 /\ hour <= 9)

\* getDefaultPlans()
getDefaultPlans ==
    << [planType |-> "Basic", costPerKwh |-> 12],
       [planType |-> "Standard", costPerKwh |-> 15],
       [planType |-> "Premium", costPerKwh |-> 18],
       [planType |-> "Green", costPerKwh |-> 20] >>

\* getFallbackPlanType(index)
getFallbackPlanType(index) ==
    << "Basic", "Standard", "Premium", "Green" >>[(index % 4) + 1]

\* a cost table without the 0.15 of last resort
getFallbackPlanCost_NoDefault(planType) ==
    CASE planType = "Basic" -> 12
      [] planType = "Standard" -> 15
      [] planType = "Premium" -> 18
      [] planType = "Green" -> 20
      [] OTHER -> 0

\* getFallbackPlanCost(planType): planCosts[planType] || 0.15
getFallbackPlanCost(planType) ==
    CASE planType = "Basic" -> 12
      [] planType = "Standard" -> 15
      [] planType = "Premium" -> 18
      [] planType = "Green" -> 20
      [] OTHER -> 15

\* A document of the energy_plans query, projected on planType and
\* costPerKwh.  planType "" is an absent (or empty) planType, costPerKwh 0 an
\* absent or zero costPerKwh: the code tells neither pair apart.
PlanDocs ==
    { [planType |-> "", costPerKwh |-> 25],
      [planType |-> "Custom", costPerKwh |-> 0],
      [planType |-> "Basic", costPerKwh |-> 0],
      [planType |-> "Green", costPerKwh |-> 25] }

\* what the energy_plans query can answer: it raises, or returns documents
PlanQueries ==
    {[throws |-> TRUE, docs |-> << >>]}
       \cup {[throws |-> FALSE, docs |-> d] :
                d \in UNION {[1..n -> PlanDocs] : n \in 0..MaxPlans}}

\* plans.filter(plan => plan && plan.planType)
validPlans(docs) == SelectSeq(docs, LAMBDA plan : plan.planType # "")

\* getEnergyPlans(): the valid documents, the default plans when there is
\* none or when the query raises
getEnergyPlans(query) ==
    IF query.throws THEN getDefaultPlans
    ELSE IF Len(validPlans(query.docs)) = 0 THEN getDefaultPlans
    ELSE validPlans(query.docs)

\* the customers the loop can pick: what calculateEnergyUsage reads of them
Customers ==
    { [hasSolar |-> FALSE, hasElectricVehicle |-> FALSE, homeSize |-> "Medium"],
      [hasSolar |-> TRUE, hasElectricVehicle |-> TRUE, homeSize |-> "Large"],
      [hasSolar |-> TRUE, hasElectricVehicle |-> FALSE, homeSize |-> "Small"] }

\* hours a random timestamp can fall in: overnight, peak, neither
Hours == {3, 8, 12}

\* baseUsage before the customer factors, at both ends of its range
BaseUsages(hour) ==
    IF isPeakHour(hour) THEN {2500, 5499}
    ELSE IF hour >= 0 /\ hour <= 6 THEN {500, 1499}
    ELSE {1500, 3499}

\* the customer factors of calculateEnergyUsage as one fraction
FactorNum(customer) ==
    (IF customer.hasSolar THEN 6 ELSE 10)
       * (IF customer.hasElectricVehicle THEN 14 ELSE 10)
       * (IF customer.homeSize = "Large" THEN 13
          ELSE IF customer.homeSize = "Small" THEN 8 ELSE 10)

\* calculateEnergyUsage(hour, customer): parseFloat(baseUsage.toFixed(2))
calculateEnergyUsage(baseUsage, customer) ==
    Nearest(baseUsage * FactorNum(customer), 1000)

NoRecord == [planType |-> "", planCost |-> 0, hourOfDay |-> 0, peakHours |-> FALSE,
             energyConsumptionKwh |-> 0, cost |-> 0, carbonFootprint |-> 0,
             hasSolar |-> FALSE, hasElectricVehicle |-> FALSE, homeSize |-> "Medium"]

\* derived fields left at the 0 of the record literal
derived_Skipped(record, cost, carbon) == record

\* lines 305-306: cost and carbonFootprint computed from the finished record
derived(record, cost, carbon) ==
    [record EXCEPT !.cost = cost, !.carbonFootprint = carbon]

\* POST /generate-dataset body: records
GenStart(n) ==
    /\ gen.pc = "none"
    /\ gen' = [pc |-> "getCustomerIds", numRecords |-> n, pool |-> "none",
               planQuery |-> [throws |-> FALSE, docs |-> << >>], plans |-> << >>,
               i |-> 0, length |-> 0, record |-> NoRecord]
    /\ UNCHANGED <<trainingStatus, linearModel, neuralNetwork, ai_energy_dataset,
                   ai_model_metadata, call, lastPredict, statusReply,
                   fitInput, prediction, recommendation, analysis>>
    /\ UNCHANGED apart

\* getCustomerIds: ten mock customers when the query raises, else what it found
GenCustomers(outcome) ==
    /\ gen.pc = "getCustomerIds"
    /\ gen' = [gen EXCEPT !.pc = "getEnergyPlans",
                          !.pool = IF outcome = "empty" THEN "empty" ELSE "some"]
    /\ UNCHANGED <<trainingStatus, linearModel, neuralNetwork, ai_energy_dataset,
                   ai_model_metadata, call, lastPredict, statusReply,
                   fitInput, prediction, recommendation, analysis>>
    /\ UNCHANGED apart

\* getEnergyPlans
GenPlans(query) ==
    /\ gen.pc = "getEnergyPlans"
    /\ gen' = [gen EXCEPT !.pc = "loop", !.planQuery = query,
                          !.plans = getEnergyPlans(query)]
    /\ UNCHANGED <<trainingStatus, linearModel, neuralNetwork, ai_energy_dataset,
                   ai_model_metadata, call, lastPredict, statusReply,
                   fitInput, prediction, recommendation, analysis>>
    /\ UNCHANGED apart

\* one turn of the loop with a customer to pick (lines 266-308)
GenRecord ==
    /\ gen.pc = "loop"
    /\ gen.i < gen.numRecords
    /\ gen.pool = "some"
    /\ \E randomCustomer \in Customers, p \in 1..Len(gen.plans), hour \in Hours,
          own \in Customers :
       \E baseUsage \in BaseUsages(hour) :
       \E usage \in calculateEnergyUsage(baseUsage, randomCustomer) :
          LET randomPlan == gen.plans[p]
              planType == IF randomPlan.planType # "" THEN randomPlan.planType
                          ELSE getFallbackPlanType(gen.i)
              planCost == IF randomPlan.costPerKwh # 0 THEN randomPlan.costPerKwh
                          ELSE getFallbackPlanCost(planType)
              record == [NoRecord EXCEPT !.planType = planType,
                                         !.planCost = planCost,
                                         !.hourOfDay = hour,
                                         !.peakHours = isPeakHour(hour),
                                         !.energyConsumptionKwh = usage,
                                         \* lines 295-297: drawn afresh, not
                                         \* read from randomCustomer
                                         !.homeSize = own.homeSize,
                                         !.hasSolar = own.hasSolar,
                                         !.hasElectricVehicle = own.hasElectricVehicle]
          IN \E cost \in Nearest(usage * planCost, 100),
                carbon \in Nearest(usage * 50, 100) :
                gen' = [gen EXCEPT !.i = gen.i + 1,
                                   !.length = gen.length + 1,
                                   !.record = derived(record, cost, carbon)]
    /\ UNCHANGED <<trainingStatus, linearModel, neuralNetwork, ai_energy_dataset,
                   ai_model_metadata, call, lastPredict, statusReply,
                   fitInput, prediction, recommendation, analysis>>
    /\ UNCHANGED apart

\* the first turn of the loop with no customer: customerIds[0] is undefined
\* and randomCustomer._id raises
GenRaises ==
    /\ gen.pc = "loop"
    /\ gen.i < gen.numRecords
    /\ gen.pool = "empty"
    /\ gen' = [gen EXCEPT !.pc = "raised"]
    /\ UNCHANGED <<trainingStatus, linearModel, neuralNetwork, ai_energy_dataset,
                   ai_model_metadata, call, lastPredict, statusReply,
                   fitInput, prediction, recommendation, analysis>>
    /\ UNCHANGED apart

\* the loop is over: return dataset
GenReturn ==
    /\ gen.pc = "loop"
    /\ gen.i >= gen.numRecords
    /\ gen' = [gen EXCEPT !.pc = "returned"]
    /\ UNCHANGED <<trainingStatus, linearModel, neuralNetwork, ai_energy_dataset,
                   ai_model_metadata, call, lastPredict, statusReply,
                   fitInput, prediction, recommendation, analysis>>
    /\ UNCHANGED apart

NextGen ==
    \/ \E n \in 1..MaxRecords : GenStart(n)
    \/ \E outcome \in {"throws", "empty", "found"} : GenCustomers(outcome)
    \/ \E query \in PlanQueries : GenPlans(query)
    \/ GenRecord
    \/ GenRaises
    \/ GenReturn

SpecGen == Init /\ [][NextGen]_vars

\* ========================================================= PlanRecommender
\* recommendOptimalPlan in exact arithmetic.  Energy is in kWh, money in
\* hundredths.  avgUsage is sum / n for a history of n records, so the
\* suitability score is carried multiplied by Scale(n) = 1000 * n, which
\* makes every term of calculateSuitability an integer.

\* the plans table of recommendOptimalPlan (rate in hundredths)
plans ==
    << [name |-> "Basic", rate |-> 12, fixed |-> 10, maxUsage |-> 30],
       [name |-> "Standard", rate |-> 15, fixed |-> 5, maxUsage |-> 50],
       [name |-> "Premium", rate |-> 18, fixed |-> 0, maxUsage |-> 100],
       [name |-> "Green", rate |-> 20, fixed |-> 8, maxUsage |-> 40] >>

Scale(n) == 1000 * n

Max(a, b) == IF a >= b THEN a ELSE b
\* the larger in place of the smaller
Min_Larger(a, b) == IF a >= b THEN a ELSE b

Min(a, b) == IF a <= b THEN a ELSE b

\* parseFloat((n / d).toFixed(2)) of an amount in hundredths; the histories
\* looked at never put n / d half-way between two hundredths
toFixed(n, d) == CHOOSE q \in Nearest(n, d) : TRUE

RECURSIVE SumOf(_, _)
\* usageHistory.reduce((sum, r) => sum + r[field], 0)
SumOf(usageHistory, field) ==
    IF Len(usageHistory) = 0 THEN 0
    ELSE usageHistory[1][field] + SumOf(Tail(usageHistory), field)

\* a score whose cost term is not held at zero
calculateSuitability_NoFloor(plan, sum, n, customerData) ==
    LET usage == IF sum <= plan.maxUsage * n THEN 40 * Scale(n)
                 ELSE Max(0, 40 * Scale(n) - 1000 * (sum - plan.maxUsage * n))
        cost == 30 * Scale(n) - (sum * plan.rate + 100 * plan.fixed * n)
        solar == IF customerData.hasSolar /\ plan.name = "Green" THEN 30 ELSE 0
        high == IF customerData.income = "High" /\ plan.name = "Premium" THEN 20 ELSE 0
        low == IF customerData.income = "Low" /\ plan.name = "Basic" THEN 20 ELSE 0
    IN Min(100 * Scale(n), usage + cost + (solar + high + low) * Scale(n))

\* calculateSuitability(plan, avgUsage, peakUsage, customerData), times
\* Scale(n), with avgUsage = sum / n
calculateSuitability(plan, sum, n, customerData) ==
    LET usage == IF sum <= plan.maxUsage * n THEN 40 * Scale(n)
                 ELSE Max(0, 40 * Scale(n) - 1000 * (sum - plan.maxUsage * n))
        cost == Max(0, 30 * Scale(n) - (sum * plan.rate + 100 * plan.fixed * n))
        solar == IF customerData.hasSolar /\ plan.name = "Green" THEN 30 ELSE 0
        high == IF customerData.income = "High" /\ plan.name = "Premium" THEN 20 ELSE 0
        low == IF customerData.income = "Low" /\ plan.name = "Basic" THEN 20 ELSE 0
    IN Min(100 * Scale(n), usage + cost + (solar + high + low) * Scale(n))

\* calculatePotentialSavings(plan, usageHistory, customerData), in hundredths
calculatePotentialSavings(plan, usageHistory) ==
    LET n == Len(usageHistory)
    IN toFixed(SumOf(usageHistory, "cost")
                  - SumOf(usageHistory, "energyConsumptionKwh") * plan.rate
                  - 100 * plan.fixed * n, n)

\* one entry of planAnalysis.  nan: the numbers of the entry are NaN (they are
\* then written 0 here).
Analysis(plan, customerData, usageHistory) ==
    LET n == Len(usageHistory)
        sum == SumOf(usageHistory, "energyConsumptionKwh")
    IN IF n = 0
       THEN [plan |-> plan.name, nan |-> TRUE, monthlyCost |-> 0, suitability |-> 0,
             savingsPotential |-> 0, recommendation |-> "Over Usage"]
       ELSE [plan |-> plan.name, nan |-> FALSE,
             monthlyCost |-> toFixed(sum * plan.rate + 100 * plan.fixed * n, n),
             suitability |-> calculateSuitability(plan, sum, n, customerData),
             savingsPotential |-> calculatePotentialSavings(plan, usageHistory),
             recommendation |-> IF sum <= plan.maxUsage * n THEN "Compatible"
                                ELSE "Over Usage"]

\* a comparator that puts the lower suitability first
Precedes_Ascending(a, b) ==
    /\ ~a.nan /\ ~b.nan
    /\ \/ a.suitability < b.suitability
       \/ a.suitability = b.suitability /\ a.monthlyCost < b.monthlyCost

\* the comparator of the sort is negative: a goes before b.  With NaN on
\* either side the comparator is NaN, which sort takes as 0.
Precedes(a, b) ==
    /\ ~a.nan /\ ~b.nan
    /\ \/ a.suitability > b.suitability
       \/ a.suitability = b.suitability /\ a.monthlyCost < b.monthlyCost

\* planAnalysis.sort(...): stable, so entries the comparator does not order
\* keep the order of the plans table
sort(planAnalysis) ==
    LET n == Len(planAnalysis)
        rank(k) == Cardinality({j \in 1..n :
                       \/ Precedes(planAnalysis[j], planAnalysis[k])
                       \/ (~Precedes(planAnalysis[k], planAnalysis[j]) /\ j < k)})
    IN [pos \in 1..n |-> planAnalysis[CHOOSE k \in 1..n : rank(k) = pos - 1]]

\* generateRecommendationReasoning(plan, avgUsage): the reasons joined
generateRecommendationReasoning(plan, sum, n) ==
    (IF ~plan.nan /\ plan.savingsPotential > 0 THEN <<"savings">> ELSE << >>)
       \o (IF n > 0 /\ sum <= 30 * n THEN <<"low">>
           ELSE IF n > 0 /\ sum <= 50 * n THEN <<"medium">>
           ELSE <<"high">>)
       \o (IF plan.plan = "Green" THEN <<"green">> ELSE << >>)

\* a recommendOptimalPlan that serves trained instances only
recommendOptimalPlan_WhenTrained(this, customerData, usageHistory) ==
    LET n == Len(usageHistory)
        sum == SumOf(usageHistory, "energyConsumptionKwh")
        allOptions == sort([k \in 1..Len(plans) |->
                               Analysis(plans[k], customerData, usageHistory)])
    IN IF ~this.isTrained
       THEN [outcome |-> "raised", currentUsage |-> 0, nan |-> FALSE,
             recommendedPlan |-> allOptions[1], allOptions |-> allOptions,
             reasoning |-> << >>]
       ELSE [outcome |-> "returned",
             currentUsage |-> IF n = 0 THEN 0 ELSE toFixed(100 * sum, n),
             nan |-> (n = 0),
             recommendedPlan |-> allOptions[1],
             allOptions |-> allOptions,
             reasoning |-> generateRecommendationReasoning(allOptions[1], sum, n)]

\* recommendOptimalPlan(customerData, usageHistory) on the instance this.  No
\* statement of it raises: with an empty history the divisions give NaN.
recommendOptimalPlan(this, customerData, usageHistory) ==
    LET n == Len(usageHistory)
        sum == SumOf(usageHistory, "energyConsumptionKwh")
        allOptions == sort([k \in 1..Len(plans) |->
                               Analysis(plans[k], customerData, usageHistory)])
    IN [outcome |-> "returned",
        currentUsage |-> IF n = 0 THEN 0 ELSE toFixed(100 * sum, n),
        nan |-> (n = 0),
        recommendedPlan |-> allOptions[1],
        allOptions |-> allOptions,
        reasoning |-> generateRecommendationReasoning(allOptions[1], sum, n)]

\* customerData: what calculateSuitability reads of it
CustomerData == [hasSolar : BOOLEAN, income : {"Low", "Medium", "High"}]

\* records of a usage history: what recommendOptimalPlan reads of them
UsageRecords ==
    { [energyConsumptionKwh |-> 20, cost |-> 300],
      [energyConsumptionKwh |-> 40, cost |-> 2000],
      [energyConsumptionKwh |-> 120, cost |-> 2000],
      [energyConsumptionKwh |-> 5000, cost |-> 2000] }

UsageHistories == UNION {[1..n -> UsageRecords] : n \in 0..MaxHistory}

\* ModelTrainer.recommendPlan(customerData, usageHistory), POST /recommend-plan.
\* One request is followed per behaviour, made at any point of it: the call
\* writes nothing that the trainer or a later request reads.
RecommendPlan(customerData, usageHistory) ==
    /\ recommendation.result.outcome = "none"
    /\ recommendation' =
          [customerData |-> customerData, usageHistory |-> usageHistory,
           result |-> recommendOptimalPlan(linearModel, customerData, usageHistory)]
    /\ UNCHANGED <<trainingStatus, linearModel, neuralNetwork, ai_energy_dataset,
                   ai_model_metadata, call, lastPredict, statusReply,
                   gen, fitInput, prediction, analysis>>
    /\ UNCHANGED apart

\* ModelTrainer.analyzePatterns(dataset): EnergyPredictionModel defines no
\* analyzeConsumptionPatterns, so the call is a TypeError for every dataset
AnalyzePatterns ==
    /\ analysis' = "TypeError_analyzeConsumptionPatterns"
    /\ UNCHANGED <<trainingStatus, linearModel, neuralNetwork, ai_energy_dataset,
                   ai_model_metadata, call, lastPredict, statusReply,
                   gen, fitInput, prediction, recommendation>>
    /\ UNCHANGED apart

\* one training or generation request, with recommendPlan and
\* analyzePatterns called at any point of it
NextPass ==
    \/ InvokeTrain(1)
    \/ InvokeGenerate(1)
    \/ GetCustomerIds(1)
    \/ GetEnergyPlans(1)
    \/ DeleteManyOk(1)
    \/ DeleteManyFails(1)
    \/ InsertManyFails(1)
    \/ InsertManyOkTrain(1)
    \/ InsertManyOkGenerate(1)
    \/ AwaitFit(1)
    \/ GetDatasetStats(1)
    \/ \E customerData \in CustomerData, usageHistory \in UsageHistories :
          RecommendPlan(customerData, usageHistory)
    \/ AnalyzePatterns

SpecPass == Init /\ [][NextPass]_vars

\* recommendPlan on its own, for every customerData and usageHistory
NextRecommend ==
    \E customerData \in CustomerData, usageHistory \in UsageHistories :
       RecommendPlan(customerData, usageHistory)

SpecRecommend == Init /\ [][NextRecommend]_vars

\* ==================================================== EnergyPredictionModel
\* One EnergyPredictionModel instance on its own: trainEnsembleModel with
\* every outcome of the two regressions and of their evaluations, and predict.

\* values of evaluateModel(...).rSquared (1 - ssRes / ssTot has no lower bound)
RSquaredRange == -2..2

\* predictWithModel(model, input, modelType) with the three features
\* supplied: the number of features handed to model.predict, and the kind of
\* the model object that received them
predictWithModel(model, modelType) ==
    [outcome |-> "value",
     given |-> IF modelType = "polynomial" THEN 2 ELSE 3,
     kind |-> model.kind]

\* EnergyPredictionModel.predict(input)
EnergyPredictionModel_predict(this) ==
    IF ~this.isTrained
    THEN [NoPrediction EXCEPT !.outcome = "raised"]
    ELSE predictWithModel(this.linearModel, this.accuracyMetrics.name)

\* await linearModel.trainEnsembleModel(dataset) on the instance
Fit(linThrows, polyThrows, rLin, rPoly) ==
    LET r == trainEnsembleModel(linearModel, 1, linThrows, polyThrows,
                                FallbackThrows(linThrows), rLin, rPoly)
    IN /\ linearModel' = r.model
       /\ fitInput' = [called |-> TRUE, linThrows |-> linThrows,
                       polyThrows |-> polyThrows, rLin |-> rLin, rPoly |-> rPoly,
                       raised |-> r.raised]
       /\ UNCHANGED <<trainingStatus, neuralNetwork, ai_energy_dataset,
                      ai_model_metadata, call, lastPredict, statusReply,
                      gen, prediction, recommendation, analysis>>
       /\ UNCHANGED apart

\* linearModel.predict(input)
PredictEnsemble ==
    /\ prediction' = EnergyPredictionModel_predict(linearModel)
    /\ UNCHANGED <<trainingStatus, linearModel, neuralNetwork, ai_energy_dataset,
                   ai_model_metadata, call, lastPredict, statusReply,
                   gen, fitInput, recommendation, analysis>>
    /\ UNCHANGED apart

NextModel ==
    \/ \E linThrows, polyThrows \in BOOLEAN, rLin, rPoly \in RSquaredRange :
          Fit(linThrows, polyThrows, rLin, rPoly)
    \/ PredictEnsemble

SpecModel == Init /\ [][NextModel]_vars

\* ===================================================== calculateSuitability
\* calculateSuitability on its own, over usages on both sides of every
\* threshold of the score

\* sums of energyConsumptionKwh over a history: with n = 1 or 2 they give
\* averages at and around every usage cap (30, 40, 50, 100), at the point the
\* usage term reaches zero (cap + 40) and where the cost term reaches zero
Sums == {0, 30, 31, 40, 41, 50, 51, 61, 80, 81, 100, 101, 140, 141, 200, 1459, 1461, 2500, 5000}

\* this.calculateSuitability(plan, avgUsage, peakUsage, customerData) at
\* line 175, for plan k of the table and avgUsage = sum / n
Suitability(k, sum, n, customerData) ==
    /\ score' = [called |-> TRUE, plan |-> k, sum |-> sum, n |-> n,
                 customerData |-> customerData,
                 suitability |-> calculateSuitability(plans[k], sum, n, customerData)]
    /\ UNCHANGED <<trainer, gen, fitInput, prediction, recommendation, analysis,
                   clock, orders, stock, requests>>

NextScore ==
    \E k \in 1..Len(plans), sum \in Sums, n \in 1..2, customerData \in CustomerData :
       Suitability(k, sum, n, customerData)

SpecScore == Init /\ [][NextScore]_vars

\* ============================================================ time fields
\* The time fields of a record, for every hour and month a timestamp has.

\* a getSeason whose autumn ends in October's place at September
getSeason_ShortAutumn(month) ==
    IF month >= 2 /\ month <= 4 THEN "Spring"
    ELSE IF month >= 5 /\ month <= 7 THEN "Summer"
    ELSE IF month >= 8 /\ month <= 9 THEN "Autumn"
    ELSE "Winter"

\* getSeason(month)
getSeason(month) ==
    IF month >= 2 /\ month <= 4 THEN "Spring"
    ELSE IF month >= 5 /\ month <= 7 THEN "Summer"
    ELSE IF month >= 8 /\ month <= 10 THEN "Autumn"
    ELSE "Winter"

\* the branch of calculateEnergyUsage that sets baseUsage (lines 319-325)
usageBucket(hour) ==
    IF isPeakHour(hour) THEN "peak"
    ELSE IF hour >= 0 /\ hour <= 6 THEN "overnight"
    ELSE "other"

\* timestamp.getHours() and timestamp.getMonth()
HoursOfDay == 0..23
MonthsOfYear == 0..11

\* one turn of the loop, its time fields only: hourOfDay, month, season and
\* peakHours of the record literal, and the branch calculateEnergyUsage takes
TimeFields(hour, month) ==
    /\ clock' = [called |-> TRUE, hourOfDay |-> hour, month |-> month,
                 peakHours |-> isPeakHour(hour), bucket |-> usageBucket(hour),
                 season |-> getSeason(month)]
    /\ UNCHANGED <<trainer, gen, fitInput, prediction, recommendation, analysis,
                   score, orders, stock, requests>>

NextClock == \E hour \in HoursOfDay, month \in MonthsOfYear : TimeFields(hour, month)

SpecClock == Init /\ [][NextClock]_vars

\* ============================================================ order routes
\* POST /orders, POST /orders/:id/cancel (routes/customer.js) and
\* POST /approve-order (vendor routes) on the orders of one product.  Each
\* action is one continuation of a handler: it ends at the next await.
\* Database errors (the catch blocks answering 500) are left out.

\* quantities an order can ask for
Quantities == {1, 2}

\* POST /orders up to await Product.findById: the stock test of a purchase
\* is made on the product as read here
PlaceOrderFind(o, action, quantity) ==
    /\ orders[o].status = "none"
    /\ o > 1 => orders[o - 1].status # "none"
    /\ orders' = [orders EXCEPT ![o] =
          IF action = "buy" /\ stock < quantity
          THEN [NoOrder EXCEPT !.status = "refused"]
          ELSE [status |-> "creating", action |-> action, quantity |-> quantity,
                decrements |-> 0]]
    /\ UNCHANGED <<trainer, gen, fitInput, prediction, recommendation, analysis,
                   score, clock, stock, requests>>

\* POST /orders: await newOrder.save() with status 'pending'
PlaceOrderSave(o) ==
    /\ orders[o].status = "creating"
    /\ orders' = [orders EXCEPT ![o].status = "pending"]
    /\ UNCHANGED <<trainer, gen, fitInput, prediction, recommendation, analysis,
                   score, clock, stock, requests>>

\* Order.findOneAndUpdate({_id, customerId, status: 'pending'}, {status:
\* 'cancelled', ...}): one atomic operation of the store
findOneAndUpdate(order) ==
    IF order.status = "pending" THEN [order EXCEPT !.status = "cancelled"]
    ELSE order

\* POST /orders/:id/cancel
CancelOrder(o) ==
    /\ orders[o].status \notin {"none", "creating", "refused"}
    /\ orders' = [orders EXCEPT ![o] = findOneAndUpdate(orders[o])]
    /\ UNCHANGED <<trainer, gen, fitInput, prediction, recommendation, analysis,
                   score, clock, stock, requests>>

\* POST /approve-order arrives, body {orderId, action}
InvokeApproveOrder(r, o, action) ==
    /\ requests[r].pc = "none"
    /\ r > 1 => requests[r - 1].pc # "none"
    /\ requests' = [requests EXCEPT ![r] =
                       [kind |-> action, order |-> o, pc |-> "findOne"]]
    /\ UNCHANGED <<trainer, gen, fitInput, prediction, recommendation, analysis,
                   score, clock, orders, stock>>

\* where the handler goes once findOne has answered: the tests of lines
\* 311-332 on the order and on the stock of the populated product
afterFindOne(order, productStock, action) ==
    IF order.status \in {"none", "creating", "refused"} THEN "done"
    ELSE IF order.status # "pending" THEN "done"
    ELSE IF action = "approve" /\ order.action = "buy" /\ productStock < order.quantity
    THEN "done"
    ELSE IF action = "approve" /\ order.action = "buy" THEN "inc"
    ELSE "update"

\* await Order.findOne(...).populate('productId') answers; the handler runs
\* to its next await or to its reply
FindOneOrder(r) ==
    /\ requests[r].pc = "findOne"
    /\ requests' = [requests EXCEPT ![r].pc =
                       afterFindOne(orders[requests[r].order], stock, requests[r].kind)]
    /\ UNCHANGED <<trainer, gen, fitInput, prediction, recommendation, analysis,
                   score, clock, orders, stock>>

\* await Product.findByIdAndUpdate(_id, {$inc: {stock: -order.quantity}})
IncStock(r) ==
    /\ requests[r].pc = "inc"
    /\ stock' = stock - orders[requests[r].order].quantity
    /\ orders' = [orders EXCEPT ![requests[r].order].decrements = @ + 1]
    /\ requests' = [requests EXCEPT ![r].pc = "update"]
    /\ UNCHANGED <<trainer, gen, fitInput, prediction, recommendation, analysis,
                   score, clock>>

\* await Order.findByIdAndUpdate(orderId, updateData): no test of the status
UpdateOrder(r) ==
    /\ requests[r].pc = "update"
    /\ orders' = [orders EXCEPT ![requests[r].order].status =
                     IF requests[r].kind = "approve" THEN "approved" ELSE "rejected"]
    /\ requests' = [requests EXCEPT ![r].pc = "done"]
    /\ UNCHANGED <<trainer, gen, fitInput, prediction, recommendation, analysis,
                   score, clock, stock>>

NextOrders ==
    \/ \E o \in Orders, action \in {"buy", "rent"}, quantity \in Quantities :
          PlaceOrderFind(o, action, quantity)
    \/ \E o \in Orders : PlaceOrderSave(o)
    \/ \E o \in Orders : CancelOrder(o)
    \/ \E r \in Requests, o \in Orders, action \in {"approve", "reject"} :
          InvokeApproveOrder(r, o, action)
    \/ \E r \in Requests : FindOneOrder(r)
    \/ \E r \in Requests : IncStock(r)
    \/ \E r \in Requests : UpdateOrder(r)

SpecOrders == Init /\ [][NextOrders]_vars

\* ================================================================ claims
StatusSet == {"idle", "training", "completed", "failed"}

TrainCalls == {c \in Calls : call[c].kind = "train"}

InFlight(c) == call[c].pc \in ActivePcs

\* the exception a step of call c raises when it raises, by the position of c
ErrorAt(c) ==
    CASE call[c].pc = "getEnergyPlans" -> "TypeError_randomCustomer"
      [] call[c].pc = "deleteMany" -> "DeleteManyError"
      [] call[c].pc = "insertMany" -> "InsertManyError"
      [] call[c].pc = "awaitFit" /\ call[c].fit = "threw" -> "FitError"
      [] OTHER -> "TypeError_createModel"

\* C1: trainingStatus is always one of idle, training, completed, failed; it
\* is idle until the first trainAllModels; a run sets it to training when it
\* starts; the step that ends a run leaves it completed or failed; and a
\* status that a lone run has brought to completed is not turned into failed.
C1_StatusMachine ==
    /\ trainingStatus = "idle"
    /\ [][/\ trainingStatus' \in StatusSet
          /\ (\A c \in Calls : call'[c].kind # "train") => trainingStatus' = "idle"
          /\ \A c \in Calls :
                /\ (call[c].pc = "none" /\ call'[c].kind = "train")
                      => trainingStatus' = "training"
                /\ (call[c].kind = "train" /\ InFlight(c) /\ call'[c].pc = "done")
                      => trainingStatus' \in {"completed", "failed"}
                /\ (call[c].kind = "train" /\ TrainCalls = {c}
                      /\ trainingStatus = "completed")
                      => trainingStatus' # "failed"
         ]_vars

\* a train run has ended and left the status failed
C1_Witness ==
    \E c \in Calls : /\ call[c].kind = "train" /\ call[c].pc = "done"
                     /\ trainingStatus = "failed"

\* C2: the step in which a train run ends on an exception leaves
\* trainingStatus = failed and hands that same exception to the caller; the
\* run never ends by returning after a step has raised.
C2_ThrowFailsAndPropagates ==
    [][\A c \in Calls :
          (call[c].kind = "train" /\ InFlight(c) /\ call'[c].pc = "done")
             => /\ trainingStatus' = "failed"
                /\ call'[c].result = Threw(ErrorAt(c))
      ]_vars

\* a train run ended on the exception of its ensemble fit
C2_Witness ==
    \E c \in Calls : /\ call[c].kind = "train" /\ call[c].pc = "done"
                     /\ call[c].result = Threw("FitError")
                     /\ call[c].fit = "threw"

\* C4: every getTrainingStatus reply carries a status of the state machine,
\* equal to trainingStatus at the time of the reply.
C4_ReplyIsMachineState ==
    [][statusReply' # statusReply
          => (statusReply' \in StatusSet /\ statusReply' = trainingStatus')]_vars

\* C5: as long as no train call has had a successful fit, no predict call
\* has returned a prediction.
C5_PredictRaisesUntrained ==
    (\A c \in Calls : call[c].fit # "ok") => lastPredict.outcome # "value"

\* a 'neural' predict raised after a train run had failed before fitting
C5_Witness ==
    /\ \A c \in Calls : call[c].fit # "ok"
    /\ \E c \in Calls : call[c].kind = "train" /\ call[c].pc = "done"
    /\ lastPredict.outcome = "raised"
    /\ lastPredict.modelType = "neural"

\* C6: whenever the instance is trained, and whenever predict has returned a
\* prediction, the model reference and the kind label come from one and the
\* same fit, and that fit ran to its end.
C6_NoPartialModel ==
    /\ linearModel.isTrained
          => /\ linearModel.linearModel.run \in Calls
             /\ linearModel.accuracyMetrics.run = linearModel.linearModel.run
             /\ call[linearModel.linearModel.run].fit = "ok"
    /\ lastPredict.outcome = "value"
          => /\ lastPredict.model \in Calls
             /\ lastPredict.label = lastPredict.model
             /\ call[lastPredict.model].fit = "ok"

\* predict returned the model of a run that is still suspended at line 26
C6_Witness ==
    \E c \in Calls : /\ call[c].pc = "awaitFit"
                     /\ lastPredict.outcome = "value"
                     /\ lastPredict.model = c

\* C7: at most one trainAllModels invocation is in flight at any time.
C7_SingleFlight ==
    Cardinality({c \in TrainCalls : InFlight(c)}) <= 1

\* C8: a train run that ended in failed has left nothing in the retained
\* model: neither the model reference nor the metrics nor the feature
\* importance come from it.
C8_FailedRunLeavesModel ==
    \A c \in Calls :
        (call[c].kind = "train" /\ call[c].pc = "done"
            /\ call[c].result.kind = "threw")
           => /\ linearModel.linearModel.run # c
              /\ linearModel.accuracyMetrics.run # c

\* the step of call c in which its saveDataset fails
SaveFails(c) ==
    \/ call[c].pc = "deleteMany" /\ call'[c].pc \notin {"deleteMany", "insertMany"}
    \/ call[c].pc = "insertMany"
          /\ call'[c].pc \notin {"insertMany", "awaitFit", "getDatasetStats"}

\* C9: saveDataset is attempted at most once per call; when it fails the
\* call ends there with that failure handed to the caller, and a train run
\* is left failed.
C9_StorageFailureNotRetried ==
    [][\A c \in Calls :
          /\ call'[c].saveAttempts <= 1
          /\ SaveFails(c)
                => /\ call'[c].pc = "done"
                   /\ call'[c].result = Threw(ErrorAt(c))
                   /\ call[c].kind = "train" => trainingStatus' = "failed"
      ]_vars

\* a train run ended failed on a rejected insertMany, after one attempt
C9_Witness ==
    \E c \in Calls : /\ call[c].kind = "train" /\ call[c].pc = "done"
                     /\ call[c].result = Threw("InsertManyError")
                     /\ call[c].saveAttempts = 1
                     /\ trainingStatus = "failed"

\* C10: when the insertMany of a saveDataset resolves and no other writer has
\* touched the collection since that saveDataset's deleteMany, the collection
\* holds exactly the records of the dataset just saved.
C10_SnapshotReplaced ==
    [][\A c \in Calls :
          (call[c].pc = "insertMany" /\ ~call[c].dirty
              /\ call'[c].pc \in {"awaitFit", "getDatasetStats"})
             => ai_energy_dataset' = Records(c)
      ]_vars

\* a second save has just completed after an earlier call had saved its own
\* dataset, and the collection holds the second dataset only
C10_Witness ==
    \E c1, c2 \in Calls :
        /\ c1 # c2
        /\ call[c1].pc = "done"
        /\ call[c1].result.kind = "returned" \/ call[c1].fit # "none"
        /\ call[c2].pc \in {"awaitFit", "getDatasetStats"}
        /\ ai_energy_dataset = Records(c2)

\* C11: a train run that has ended, whose store accepted every operation and
\* whose ensemble fit went through, has returned its comparison report and
\* left trainingStatus completed (training, if a later run has started
\* since), and predict no longer raises.
C11_RunCompletes ==
    \A c \in Calls :
        (call[c].kind = "train" /\ call[c].pc = "done" /\ call[c].fit = "ok")
           => /\ call[c].result.kind = "returned"
              /\ trainingStatus \in {"completed", "training"}
              /\ linearModel.isTrained

\* C12: a generateComprehensiveDataset call whose customer query returned no
\* customer does not raise: its next step hands the dataset to saveDataset.
C12_EmptyPoolDoesNotRaise ==
    [][\A c \in Calls :
          (call[c].pc = "getEnergyPlans" /\ call[c].poolEmpty)
             => call'[c].pc \in {"getEnergyPlans", "deleteMany"}
      ]_vars


\* the planType/planCost pairs of the four default plans
DefaultPairs ==
    {<<getDefaultPlans[k].planType, getDefaultPlans[k].costPerKwh>> :
        k \in 1..Len(getDefaultPlans)}

C14_RecordArithmetic ==
    /\ gen.pc \in {"loop", "returned"} /\ gen.length >= 1
          => /\ gen.record.energyConsumptionKwh >= 0
             /\ gen.record.cost
                   \in Nearest(gen.record.energyConsumptionKwh * gen.record.planCost, 100)
             /\ gen.record.carbonFootprint
                   \in Nearest(gen.record.energyConsumptionKwh * 50, 100)
    /\ gen.pc = "returned" => gen.length = gen.numRecords

\* a returned corpus of more than one record whose last record has a cost
\* that needed rounding
C14_Witness ==
    /\ gen.pc = "returned"
    /\ gen.length = gen.numRecords
    /\ gen.numRecords > 1
    /\ gen.record.energyConsumptionKwh > 0
    /\ (gen.record.energyConsumptionKwh * gen.record.planCost) % 100 # 0
    /\ gen.record.cost > 0


\* C15: a recommendPlan call with an empty usageHistory raises (insufficient
\* history) and returns no Recommendation.
C15_EmptyHistoryRaises ==
    (recommendation.result.outcome # "none" /\ Len(recommendation.usageHistory) = 0)
       => recommendation.result.outcome = "raised"

\* C19: analyzePatterns returns a PatternSummary: it does not raise.
C19_AnalyzeReturnsSummary ==
    analysis \in {"none", "PatternSummary"}

\* C20: a recommendPlan call leaves trainingStatus, the retained model,
\* isTrained and the stored metrics as they were, and its Recommendation is
\* the one a freshly constructed, never trained instance gives for the same
\* customerData and usageHistory, whatever the state of the orchestrator.
C20_RecommendIndependent ==
    [][recommendation' # recommendation
          => /\ UNCHANGED <<trainingStatus, linearModel, neuralNetwork>>
             /\ recommendation'.result =
                   recommendOptimalPlan(EnergyPredictionModel,
                                        recommendation'.customerData,
                                        recommendation'.usageHistory)
      ]_vars

\* a Recommendation given after a failed run that left a trained model
C20_Witness ==
    /\ recommendation.result.outcome = "returned"
    /\ Len(recommendation.usageHistory) > 0
    /\ trainingStatus = "failed"
    /\ linearModel.isTrained


\* C16: after a trainEnsembleModel call that returned, the retained candidate
\* is the polynomial one exactly when its R-squared is strictly higher than
\* the linear one's; otherwise (lower or equal, negative values included) it
\* is the linear candidate, and the recorded R-squared is the retained one's.
C16_HigherRSquaredRetained ==
    (fitInput.called /\ ~fitInput.raised)
       => /\ fitInput.rPoly > fitInput.rLin
                => /\ linearModel.accuracyMetrics.name = "polynomial"
                   /\ linearModel.accuracyMetrics.rSquared = fitInput.rPoly
          /\ fitInput.rPoly <= fitInput.rLin
                => /\ linearModel.accuracyMetrics.name = "linear"
                   /\ linearModel.linearModel.kind = "linear"
                   /\ linearModel.accuracyMetrics.rSquared = fitInput.rLin

\* a tie between two negative scores, decided for the linear candidate
C16_Witness ==
    /\ fitInput.called /\ ~fitInput.raised
    /\ ~fitInput.polyThrows
    /\ fitInput.rLin = fitInput.rPoly
    /\ fitInput.rLin < 0
    /\ linearModel.accuracyMetrics.name = "linear"

\* C17: whenever regression.polynomial raised during a trainEnsembleModel
\* call, the call returned normally, the instance is trained and the model
\* object it retains is a linear fit.
C17_PolynomialFailureRecovered ==
    (fitInput.called /\ ~fitInput.linThrows /\ fitInput.polyThrows)
       => /\ ~fitInput.raised
          /\ linearModel.isTrained
          /\ linearModel.linearModel.kind = "linear"

\* a fit whose polynomial regression raised and whose fallback scored higher
C17_Witness ==
    /\ fitInput.called /\ ~fitInput.linThrows /\ fitInput.polyThrows
    /\ fitInput.rPoly > fitInput.rLin
    /\ linearModel.isTrained
    /\ linearModel.linearModel.kind = "linear"

\* C18: a predict call on a trained instance returns a value (not null) and
\* hands the retained model the feature vector of its kind: three features
\* to a linear model, two to a polynomial one.
C18_FeaturesMatchKind ==
    prediction.outcome = "value"
       => /\ prediction.kind \in {"linear", "polynomial"}
          /\ prediction.given = (IF prediction.kind = "linear" THEN 3 ELSE 2)


\* C21: for every average usage and income, the suitability of the Green plan
\* with hasSolar is exactly 30 points above the one of the same customer
\* without hasSolar (nothing of the bonus is lost to the cap at 100), and the
\* suitability of the three other plans is the same with and without hasSolar.
C21_SolarBonus ==
    score.called
       => LET flipped == [score.customerData EXCEPT !.hasSolar = ~@]
              other == calculateSuitability(plans[score.plan], score.sum, score.n, flipped)
              bonus == IF score.customerData.hasSolar THEN 30 * Scale(score.n)
                       ELSE -30 * Scale(score.n)
          IN IF plans[score.plan].name = "Green"
             THEN score.suitability = other + bonus
             ELSE score.suitability = other

\* the Green plan scored for a solar customer at zero usage, where the score
\* is highest
C21_Witness ==
    /\ score.called
    /\ plans[score.plan].name = "Green"
    /\ score.customerData.hasSolar
    /\ score.sum = 0
    /\ score.suitability > 99 * Scale(score.n)

\* the preference term of the score: 30 for Green with hasSolar, 20 for
\* Premium with High income, 20 for Basic with Low income
PreferenceTerm(plan, customerData) ==
    (IF customerData.hasSolar /\ plan.name = "Green" THEN 30 ELSE 0)
       + (IF customerData.income = "High" /\ plan.name = "Premium" THEN 20 ELSE 0)
       + (IF customerData.income = "Low" /\ plan.name = "Basic" THEN 20 ELSE 0)

\* C22: the suitability lies in [0, 100] and is min(100, usage term + cost
\* term + preference term), the usage term being 40 up to the usage cap and
\* max(0, 40 - (avgUsage - cap)) above it, the cost term max(0, 30 -
\* monthlyCost / 10).  All terms are times Scale(n), avgUsage being sum / n.
C22_ScoreFormula ==
    score.called
       => LET plan == plans[score.plan]
              n == score.n
              over == 1000 * (score.sum - plan.maxUsage * n)
              usageTerm == IF over <= 0 THEN 40 * Scale(n)
                           ELSE IF over >= 40 * Scale(n) THEN 0
                           ELSE 40 * Scale(n) - over
              tenth == score.sum * plan.rate + 100 * plan.fixed * n
              costTerm == IF tenth >= 30 * Scale(n) THEN 0 ELSE 30 * Scale(n) - tenth
              total == usageTerm + costTerm
                          + PreferenceTerm(plan, score.customerData) * Scale(n)
          IN /\ score.suitability >= 0
             /\ score.suitability <= 100 * Scale(n)
             /\ score.suitability = (IF total > 100 * Scale(n) THEN 100 * Scale(n) ELSE total)

\* a score whose usage and cost terms are both held at zero
C22_Witness ==
    /\ score.called
    /\ score.sum > (plans[score.plan].maxUsage + 40) * score.n
    /\ score.sum * plans[score.plan].rate + 100 * plans[score.plan].fixed * score.n
          > 30 * Scale(score.n)
    /\ score.suitability = PreferenceTerm(plans[score.plan], score.customerData) * Scale(score.n)


\* C23: in every Recommendation made from a non-empty history, allOptions
\* has one entry for each of the four plans of the table, recommendedPlan is
\* one of them, no entry has a higher suitability, and no entry of the same
\* suitability has a lower monthlyCost.
C23_BestPlanFirst ==
    (recommendation.result.outcome = "returned" /\ ~recommendation.result.nan)
       => LET r == recommendation.result
          IN /\ Len(r.allOptions) = Len(plans)
             /\ \A k \in 1..Len(plans) :
                   Cardinality({j \in 1..Len(r.allOptions) :
                                   r.allOptions[j].plan = plans[k].name}) = 1
             /\ \E j \in 1..Len(r.allOptions) : r.allOptions[j] = r.recommendedPlan
             /\ \A j \in 1..Len(r.allOptions) :
                   /\ r.allOptions[j].suitability <= r.recommendedPlan.suitability
                   /\ r.allOptions[j].suitability = r.recommendedPlan.suitability
                         => r.allOptions[j].monthlyCost >= r.recommendedPlan.monthlyCost

\* a Recommendation in which another plan has the suitability of the best
\* plan and a higher monthlyCost
C23_Witness ==
    /\ recommendation.result.outcome = "returned"
    /\ ~recommendation.result.nan
    /\ \E j \in 1..Len(recommendation.result.allOptions) :
          /\ recommendation.result.allOptions[j].suitability
                = recommendation.result.recommendedPlan.suitability
          /\ recommendation.result.allOptions[j].monthlyCost
                > recommendation.result.recommendedPlan.monthlyCost


\* C24: the energyConsumptionKwh of every generated record is a base value of
\* the range of the record's hour (peak hours 25..55, hours 0..6 5..15, other
\* hours 15..35) times the adjustments chosen by the record's own hasSolar
\* (0.6), hasElectricVehicle (1.4) and homeSize (Large 1.3, Small 0.8), up
\* to the rounding to two decimals.
C24_UsageFromOwnAttributes ==
    (gen.pc \in {"loop", "returned"} /\ gen.length >= 1)
       => LET rec == gen.record
              h == rec.hourOfDay
              lo == IF h \in (7..9) \cup (17..21) THEN 2500
                    ELSE IF h \in 0..6 THEN 500 ELSE 1500
              hi == IF h \in (7..9) \cup (17..21) THEN 5500
                    ELSE IF h \in 0..6 THEN 1500 ELSE 3500
              factor == (IF rec.hasSolar THEN 6 ELSE 10)
                           * (IF rec.hasElectricVehicle THEN 14 ELSE 10)
                           * (IF rec.homeSize = "Large" THEN 13
                              ELSE IF rec.homeSize = "Small" THEN 8 ELSE 10)
          IN /\ 1000 * rec.energyConsumptionKwh + 500 >= lo * factor
             /\ 1000 * rec.energyConsumptionKwh - 500 <= hi * factor


\* C25: for every hour of 0..23, peakHours is true exactly for 7..9 and
\* 17..21, and the hour falls in exactly one consumption bucket: peak for
\* those hours, overnight for 0..6, other for the rest; no hour of 0..6 is
\* peak.
C25_PeakHoursAndBuckets ==
    clock.called
       => /\ clock.peakHours <=> (clock.hourOfDay \in (7..9) \cup (17..21))
          /\ clock.bucket = (IF clock.hourOfDay \in (7..9) \cup (17..21) THEN "peak"
                             ELSE IF clock.hourOfDay \in 0..6 THEN "overnight"
                             ELSE "other")
          /\ clock.hourOfDay \in 0..6 => ~clock.peakHours

\* the last hour of the evening peak
C25_Witness ==
    /\ clock.called
    /\ clock.hourOfDay = 21
    /\ clock.peakHours
    /\ clock.bucket = "peak"

\* C26: for every month of 0..11 the season of the record is Spring for
\* 2..4, Summer for 5..7, Autumn for 8..10 and Winter for 11, 0 and 1: the
\* season of the record's own month.
C26_SeasonOfMonth ==
    clock.called
       => clock.season = (CASE clock.month \in 2..4 -> "Spring"
                            [] clock.month \in 5..7 -> "Summer"
                            [] clock.month \in 8..10 -> "Autumn"
                            [] clock.month \in {11, 0, 1} -> "Winter")

\* the last month of autumn
C26_Witness ==
    /\ clock.called
    /\ clock.month = 10
    /\ clock.season = "Autumn"


\* C27: whenever no run is in flight and some run has ended, the persisted
\* snapshot holds the corpus of one run: ai_energy_dataset never holds the
\* complete corpora of two different runs.
C27_SnapshotOfOneRun ==
    ((\A c \in Calls : ~InFlight(c)) /\ (\E c \in Calls : call[c].pc = "done"))
       => \A r1, r2 \in ai_energy_dataset :
             (r1[2] = "all" /\ r2[2] = "all") => r1[1] = r2[1]


\* C28: after every trainEnsembleModel call that returned, the label
\* accuracyMetrics.name is the kind of the model object retained: a linear
\* fit is never retained under the label polynomial.
C28_LabelMatchesModel ==
    (fitInput.called /\ linearModel.isTrained)
       => linearModel.accuracyMetrics.name = linearModel.linearModel.kind


\* C29: an order leaves pending at most once: once cancelled, approved or
\* rejected it keeps that status, and no stock is taken for an order that is
\* cancelled.
C29_PendingLeftOnce ==
    [][\A o \in Orders :
          /\ orders[o].status \in {"cancelled", "approved", "rejected"}
                => orders'[o].status = orders[o].status
          /\ orders[o].status = "cancelled"
                => orders'[o].decrements = orders[o].decrements
      ]_vars

\* C30: the stock of the product is never negative, and the stock of each
\* order is taken at most once.
C30_StockNeverNegative ==
    /\ stock >= 0
    /\ \A o \in Orders : orders[o].decrements <= 1

=============================================================================
